---- MODULE Spec2Model ----
(***************************************************************************)
(* Model of the submission codec and the checkpoint comparator of          *)
(* neuron/neuron/checkpoint.py.                                            *)
(*                                                                         *)
(* Representation of Python values:                                        *)
(*   str    a sequence of Unicode code points                              *)
(*   bytes  a sequence of numbers 0..255                                   *)
(*   an unsigned 32-bit integer  [hi |-> 0..65535, lo |-> 0..65535]        *)
(*          (value hi * 65536 + lo; two halves because the model checker's *)
(*          integers are 32-bit signed)                                    *)
(*   a 32-bit float  [sign |-> 0..1, exp |-> 0..255, mant |-> 0..2^23-1],  *)
(*          its IEEE-754 fields                                            *)
(*   an exception  a record whose exc field names the exception class      *)
(***************************************************************************)
EXTENDS Integers, Sequences, FiniteSets, TLC

\* ------------------------------------------------------------ constants

\* "stabilityai/stable-diffusion-xl-base-1.0"
BASELINE_CHECKPOINT ==
  <<115, 116, 97, 98, 105, 108, 105, 116, 121, 97, 105, 47, 115, 116, 97, 98,
    108, 101, 45, 100, 105, 102, 102, 117, 115, 105, 111, 110, 45, 120, 108,
    45, 98, 97, 115, 101, 45, 49, 46, 48>>

\* "apple/coreml-stable-diffusion-xl-base"
MLPACKAGES ==
  <<97, 112, 112, 108, 101, 47, 99, 111, 114, 101, 109, 108, 45, 115, 116, 97,
    98, 108, 101, 45, 100, 105, 102, 102, 117, 115, 105, 111, 110, 45, 120,
    108, 45, 98, 97, 115, 101>>

CURRENT_CONTEST == 0

SPEC_VERSION == 20

SAMPLE_COUNT == 5

\* the size ceiling of to_bytes
MAX_SUBMISSION_BYTES == 128

\* the largest value bytearray.append accepts
MAX_BYTE == 255

\* ------------------------------------------------------------ bounds

\* longest raw byte string an adversarial participant commits
MaxRawLen == 2

\* elapsed times of a generation call are 1..MaxTime seconds
MaxTime == 2

\* the cosine similarities of a sample are -1 + 2k/CosSteps, k in 0..CosSteps
CosSteps == 2

\* ------------------------------------------------------------ values

U32(n) == [hi |-> n \div 65536, lo |-> n % 65536]

NoExc == "none"

NoRecord ==
  [repository |-> <<>>, mlpackages |-> <<>>,
   average_time |-> [sign |-> 0, exp |-> 0, mant |-> 0],
   spec_version |-> U32(0), contest |-> U32(0)]

\* Python slice data[from:to] of a sequence, 0-based, clamped to the length
Slice(data, from, to) ==
  LET lo == IF from < Len(data) THEN from ELSE Len(data)
      hi == IF to < Len(data) THEN to ELSE Len(data)
  IN  IF hi <= lo THEN <<>> ELSE SubSeq(data, lo + 1, hi)

\* ------------------------------------------------------------ float bits

\* float_bits: the 32-bit pattern of a float, as an unsigned integer
float_bits(value) ==
  [hi |-> value.sign * 32768 + value.exp * 128 + (value.mant \div 65536),
   lo |-> value.mant % 65536]

\* float_from_bits: the float whose 32-bit pattern is bits
float_from_bits(bits) ==
  [sign |-> bits.hi \div 32768,
   exp  |-> (bits.hi \div 128) % 256,
   mant |-> (bits.hi % 128) * 65536 + bits.lo]

\* ------------------------------------------------------------ UTF-8

IsSurrogate(cp) == cp >= 55296 /\ cp <= 57343

IsCont(b) == b >= 128 /\ b <= 191

\* the UTF-8 bytes of one code point
Utf8Char(cp) ==
  IF cp < 128 THEN <<cp>>
  ELSE IF cp < 2048 THEN <<192 + (cp \div 64), 128 + (cp % 64)>>
  ELSE IF cp < 65536
    THEN <<224 + (cp \div 4096), 128 + ((cp \div 64) % 64), 128 + (cp % 64)>>
  ELSE <<240 + (cp \div 262144), 128 + ((cp \div 4096) % 64),
         128 + ((cp \div 64) % 64), 128 + (cp % 64)>>

\* the UTF-8 bytes of the code points s[lo..hi], in order (the range is
\* halved so that the evaluation depth stays logarithmic)
RECURSIVE EncodeRange(_, _, _)
EncodeRange(s, lo, hi) ==
  IF lo > hi THEN <<>>
  ELSE IF lo = hi THEN Utf8Char(s[lo])
  ELSE LET mid == (lo + hi) \div 2
       IN  EncodeRange(s, lo, mid) \o EncodeRange(s, mid + 1, hi)

\* str.encode(): UnicodeEncodeError on a lone surrogate
str_encode(s) ==
  IF \E k \in 1..Len(s) : IsSurrogate(s[k])
  THEN [exc |-> "UnicodeEncodeError", value |-> <<>>]
  ELSE [exc |-> NoExc, value |-> EncodeRange(s, 1, Len(s))]

\* number of bytes of the UTF-8 sequence a lead byte opens, 0 when the byte
\* cannot open one
SeqLen(b) ==
  IF b < 128 THEN 1
  ELSE IF b >= 194 /\ b <= 223 THEN 2
  ELSE IF b >= 224 /\ b <= 239 THEN 3
  ELSE IF b >= 240 /\ b <= 244 THEN 4
  ELSE 0

\* whether bs[p+1 .. p+n] is a well-formed UTF-8 sequence of n bytes
WellFormed(bs, p, n) ==
  /\ n > 0
  /\ p + n <= Len(bs)
  /\ \A j \in 2..n : IsCont(bs[p + j])
  /\ (bs[p + 1] = 224 => bs[p + 2] >= 160)
  /\ (bs[p + 1] = 237 => bs[p + 2] <= 159)
  /\ (bs[p + 1] = 240 => bs[p + 2] >= 144)
  /\ (bs[p + 1] = 244 => bs[p + 2] <= 143)

CodePoint(bs, p, n) ==
  IF n = 1 THEN bs[p + 1]
  ELSE IF n = 2 THEN (bs[p + 1] - 192) * 64 + (bs[p + 2] - 128)
  ELSE IF n = 3 THEN (bs[p + 1] - 224) * 4096 + (bs[p + 2] - 128) * 64
                     + (bs[p + 3] - 128)
  ELSE (bs[p + 1] - 240) * 262144 + (bs[p + 2] - 128) * 4096
       + (bs[p + 3] - 128) * 64 + (bs[p + 4] - 128)

\* UTF-8 is self-synchronising: a sequence starts at every byte that is not
\* a continuation byte.  The bytes are valid when they start with a lead
\* byte, every sequence is well formed and each one is followed by the end
\* of the data or by another lead byte.
Utf8Valid(bs) ==
  /\ (Len(bs) > 0 => ~IsCont(bs[1]))
  /\ \A p \in 0..(Len(bs) - 1) :
       ~IsCont(bs[p + 1]) =>
         LET n == SeqLen(bs[p + 1])
         IN  /\ WellFormed(bs, p, n)
             /\ (p + n < Len(bs) => ~IsCont(bs[p + n + 1]))

\* the code points of the sequences that start in bs[lo..hi], in order
RECURSIVE DecodeRange(_, _, _)
DecodeRange(bs, lo, hi) ==
  IF lo > hi THEN <<>>
  ELSE IF lo = hi
    THEN IF IsCont(bs[lo]) THEN <<>>
         ELSE <<CodePoint(bs, lo - 1, SeqLen(bs[lo]))>>
  ELSE LET mid == (lo + hi) \div 2
       IN  DecodeRange(bs, lo, mid) \o DecodeRange(bs, mid + 1, hi)

\* bytes.decode(): UnicodeDecodeError on bytes that are not UTF-8
bytes_decode(bs) ==
  IF Utf8Valid(bs)
  THEN [exc |-> NoExc, value |-> DecodeRange(bs, 1, Len(bs))]
  ELSE [exc |-> "UnicodeDecodeError", value |-> <<>>]

\* ------------------------------------------------------------ to_bytes

\* write_bytes: append the length as one byte, then the bytes;
\* bytearray.append raises ValueError for a value above 255
write_bytes(data, byte_data) ==
  IF Len(byte_data) > MAX_BYTE
  THEN [exc |-> "ValueError", value |-> data]
  ELSE [exc |-> NoExc, value |-> (data \o <<Len(byte_data)>>) \o byte_data]

\* faulty variant: the 4 bytes written in little-endian order
int_to_bytes_little(int_value) ==
  <<int_value.lo % 256, int_value.lo \div 256,
    int_value.hi % 256, int_value.hi \div 256>>

\* int.to_bytes(int_value, 4, "big")
int_to_bytes(int_value) ==
  <<int_value.hi \div 256, int_value.hi % 256,
    int_value.lo \div 256, int_value.lo % 256>>

\* write_int: append the 4 big-endian bytes of an unsigned 32-bit integer
write_int(data, int_value) == data \o int_to_bytes(int_value)

\* the statements of to_bytes after both strings are written
WriteNumbers(self, data) ==
  LET d3 == write_int(data, float_bits(self.average_time))
      d4 == write_int(d3, self.spec_version)
      d5 == write_int(d4, self.contest)
  IN  IF Len(d5) > MAX_SUBMISSION_BYTES
      THEN [exc |-> "RuntimeError", value |-> <<>>]
      ELSE [exc |-> NoExc, value |-> d5]

\* CheckpointSubmission.to_bytes: the bytes, or the exception raised
to_bytes(self) ==
  LET e1 == str_encode(self.repository) IN
  IF e1.exc # NoExc THEN [exc |-> e1.exc, value |-> <<>>] ELSE
  LET w1 == write_bytes(<<>>, e1.value) IN
  IF w1.exc # NoExc THEN [exc |-> w1.exc, value |-> <<>>] ELSE
  LET e2 == str_encode(self.mlpackages) IN
  IF e2.exc # NoExc THEN [exc |-> e2.exc, value |-> <<>>] ELSE
  LET w2 == write_bytes(w1.value, e2.value) IN
  IF w2.exc # NoExc THEN [exc |-> w2.exc, value |-> <<>>] ELSE
  WriteNumbers(self, w2.value)

\* ------------------------------------------------------------ from_bytes

\* read_bytes: data[position] is the length (IndexError past the end), the
\* value is the slice that follows, silently shorter when the data ends early
read_bytes(data, position) ==
  IF position >= Len(data)
  THEN [exc |-> "IndexError", value |-> <<>>, position |-> position]
  ELSE LET length == data[position + 1]
       IN  [exc |-> NoExc,
            value |-> Slice(data, position + 1, position + 1 + length),
            position |-> position + 1 + length]

\* faulty variant: the bytes read as little-endian
int_from_bytes_little(bs) ==
  LET n == Len(bs)
      b(k) == IF k < n THEN bs[k + 1] ELSE 0
  IN  [hi |-> b(3) * 256 + b(2), lo |-> b(1) * 256 + b(0)]

\* int.from_bytes(bs, "big") of at most 4 bytes
int_from_bytes(bs) ==
  LET n == Len(bs)
      b(k) == IF n - k >= 1 THEN bs[n - k] ELSE 0
  IN  [hi |-> b(3) * 256 + b(2), lo |-> b(1) * 256 + b(0)]

\* faulty variant: the slice runs to the end of the data, data[position:]
read_int_to_end(data, position) ==
  [value |-> int_from_bytes(Slice(data, position, Len(data))),
   position |-> position + 4]

\* read_int: the slice of the next 4 bytes, silently shorter at the end
read_int(data, position) ==
  [value |-> int_from_bytes(Slice(data, position, position + 4)),
   position |-> position + 4]

\* the statements of from_bytes after both strings are read
ReadNumbers(data, position, repository, mlpackages) ==
  LET r1 == read_int(data, position)
      r2 == read_int(data, r1.position)
      r3 == read_int(data, r2.position)
  IN  [exc |-> NoExc,
       value |-> [repository |-> repository,
                  mlpackages |-> mlpackages,
                  average_time |-> float_from_bits(r1.value),
                  spec_version |-> r2.value,
                  contest |-> r3.value]]

\* CheckpointSubmission.from_bytes: the record, or the exception raised
from_bytes(data) ==
  LET b1 == read_bytes(data, 0) IN
  IF b1.exc # NoExc THEN [exc |-> b1.exc, value |-> NoRecord] ELSE
  LET s1 == bytes_decode(b1.value) IN
  IF s1.exc # NoExc THEN [exc |-> s1.exc, value |-> NoRecord] ELSE
  LET b2 == read_bytes(data, b1.position) IN
  IF b2.exc # NoExc THEN [exc |-> b2.exc, value |-> NoRecord] ELSE
  LET s2 == bytes_decode(b2.value) IN
  IF s2.exc # NoExc THEN [exc |-> s2.exc, value |-> NoRecord] ELSE
  ReadNumbers(data, b2.position, s1.value, s2.value)

\* ------------------------------------------------------------ get_submission

\* faulty variant: the contest is not compared
RejectedNoContest(info) ==
  \/ info.spec_version # U32(SPEC_VERSION)
  \/ (info.repository = BASELINE_CHECKPOINT /\ info.mlpackages = MLPACKAGES)

\* the condition of get_submission under which a decoded record is dropped
Rejected(info) ==
  \/ info.spec_version # U32(SPEC_VERSION)
  \/ info.contest # U32(CURRENT_CONTEST)
  \/ (info.repository = BASELINE_CHECKPOINT /\ info.mlpackages = MLPACKAGES)

\* faulty variant: except IndexError
CaughtIndexErrorOnly(exc) == exc = "IndexError"

\* the exception classes the except clause of get_submission catches
Caught(exc) == TRUE

\* get_submission on the metadata read from the chain: kind is "none" (None
\* returned), "record" (value returned) or "raised" (exc left the function)
get_submission(md) ==
  IF ~md.present THEN [kind |-> "none", value |-> NoRecord, exc |-> NoExc] ELSE
  LET info == from_bytes(md.data) IN
  IF info.exc # NoExc
  THEN IF Caught(info.exc)
       THEN [kind |-> "none", value |-> NoRecord, exc |-> NoExc]
       ELSE [kind |-> "raised", value |-> NoRecord, exc |-> info.exc]
  ELSE IF Rejected(info.value)
       THEN [kind |-> "none", value |-> NoRecord, exc |-> NoExc]
       ELSE [kind |-> "record", value |-> info.value, exc |-> NoExc]

\* ------------------------------------------------------------ floats
\* A Python float of the comparator is [k |-> "fin", n, d] (the rational
\* n / d in lowest terms, d > 0), [k |-> "inf", n |-> 1 or -1] or
\* [k |-> "nan"].  Arithmetic follows IEEE-754 on the special values and is
\* exact on the finite ones (rounding is left out).

RECURSIVE Gcd(_, _)
Gcd(a, b) == IF b = 0 THEN a ELSE Gcd(b, a % b)

Abs(a) == IF a < 0 THEN -a ELSE a

Fin(n, d) ==
  LET g == Gcd(Abs(n), Abs(d))
      s == IF d < 0 THEN -1 ELSE 1
  IN  [k |-> "fin", n |-> s * (n \div g), d |-> s * (d \div g)]

Inf(s) == [k |-> "inf", n |-> s, d |-> 1]

NaN == [k |-> "nan", n |-> 0, d |-> 1]

Sign(a) == IF a.n > 0 THEN 1 ELSE IF a.n < 0 THEN -1 ELSE 0

FMul(a, b) ==
  IF a.k = "nan" \/ b.k = "nan" THEN NaN
  ELSE IF a.k = "inf" \/ b.k = "inf"
    THEN IF Sign(a) * Sign(b) = 0 THEN NaN ELSE Inf(Sign(a) * Sign(b))
  ELSE Fin(a.n * b.n, a.d * b.d)

FAdd(a, b) ==
  IF a.k = "nan" \/ b.k = "nan" THEN NaN
  ELSE IF a.k = "inf" /\ b.k = "inf"
    THEN IF a.n = b.n THEN a ELSE NaN
  ELSE IF a.k = "inf" THEN a
  ELSE IF b.k = "inf" THEN b
  ELSE Fin(a.n * b.d + b.n * a.d, a.d * b.d)

FNeg(a) == IF a.k = "nan" THEN NaN ELSE [a EXCEPT !.n = -a.n]

FSub(a, b) == FAdd(a, FNeg(b))

\* a / m for a positive integer m (the divisors of the code are generated + 1,
\* remaining and 2, all positive)
FDivInt(a, m) == FMul(a, Fin(1, m))

\* a < b: False when either is NaN
FLt(a, b) ==
  /\ a.k # "nan"
  /\ b.k # "nan"
  /\ IF a.k = "inf" THEN a.n < 0 /\ ~(b.k = "inf" /\ b.n < 0)
     ELSE IF b.k = "inf" THEN b.n > 0
     ELSE a.n * b.d < b.n * a.d

\* a >= b: False when either is NaN
FGe(a, b) == a.k # "nan" /\ b.k # "nan" /\ ~FLt(a, b)

\* truth value of a float: 0.0 is false, everything else (NaN too) is true
Truthy(a) == ~(a.k = "fin" /\ a.n = 0)

\* ------------------------------------------------------------ compare_checkpoints

\* float("inf"), the initial baseline_average and average_time
INITIAL_AVERAGE == Inf(1)

\* the initial average_similarity
INITIAL_SIMILARITY == Fin(1, 1)

\* pow(cosine_similarity(...).item() * 0.5 + 0.5, 4)
similarity(cos) ==
  LET x == FAdd(FMul(cos, Fin(1, 2)), Fin(1, 2))
  IN  FMul(FMul(x, x), FMul(x, x))

\* faulty variant: the divisor counts one sample too many
FoldAverageOffByOne(average, generated, value) ==
  FDivInt(FAdd(FMul(average, Fin(generated, 1)), value), generated + 2)

\* (average * generated + value) / (generated + 1)
FoldAverage(average, generated, value) ==
  FDivInt(FAdd(FMul(average, Fin(generated, 1)), value), generated + 1)

\* reported_average_time and average_time >= reported_average_time * 1.0625
Rule1(reported, at) ==
  /\ reported.given
  /\ Truthy(reported.v)
  /\ FGe(at, FMul(reported.v, Fin(17, 16)))

\* average_time < baseline_average
Faster(at, ba) == FLt(at, ba)

\* (baseline_average * SAMPLE_COUNT - generated * average_time) / remaining
needed_time(ba, at, generated) ==
  FDivInt(FSub(FMul(ba, Fin(SAMPLE_COUNT, 1)), FMul(Fin(generated, 1), at)),
          SAMPLE_COUNT - generated)

\* needed_time < average_time / 2
Rule2(ba, at, generated) == FLt(needed_time(ba, at, generated), FDivInt(at, 2))

\* faulty variant: a lower quality floor
Rule3LowerFloor(asim) == FLt(asim, Fin(80, 100))

\* average_similarity < 0.85
Rule3(asim) == FLt(asim, Fin(85, 100))

\* whether the checks that follow the fold of sample `generated` end in
\* failed = True; break
Fails(reported, ba, at, asim, generated) ==
  \/ Rule1(reported, at)
  \/ /\ ~Faster(at, ba)
     /\ (Rule2(ba, at, generated) \/ Rule3(asim))

\* faulty variant: continue where the code has break
AfterBreakContinues(idx) ==
  IF idx + 1 < SAMPLE_COUNT
  THEN [pc |-> "base", i |-> idx + 1]
  ELSE [pc |-> "ret", i |-> idx]

\* Generator().manual_seed(seed): a generator that has drawn nothing yet
manual_seed(seed) == [seed |-> seed, draws |-> 0]

\* the generator after a pipeline call drew its latents from it
Advance(generator) == [generator EXCEPT !.draws = generator.draws + 1]

\* faulty variant: the sample is tried again after an exception
AfterRaiseRetries(idx) == [pc |-> "base", i |-> idx]

\* where control goes when a pipeline call raises: no handler encloses the
\* calls, the exception leaves compare_checkpoints
AfterRaise(idx) == [pc |-> "raised", i |-> idx]

\* where control goes on break: out of the loop, i kept
AfterBreak(idx) == [pc |-> "ret", i |-> idx]

\* faulty variant: the loop is left after every iteration
AfterIterationLeaves(idx) == [pc |-> "ret", i |-> idx]

\* where control goes at the end of an iteration (continue, or falling off
\* the body): the next index of range(SAMPLE_COUNT), or out of the loop with
\* i left at the last index
AfterIteration(idx) ==
  IF idx + 1 < SAMPLE_COUNT
  THEN [pc |-> "base", i |-> idx + 1]
  ELSE [pc |-> "ret", i |-> idx]

\* ------------------------------------------------------------ state

VARIABLES
  rec,          \* the CheckpointSubmission a miner builds
  encoded,      \* outcome of rec.to_bytes()
  store,        \* what get_metadata returns for the miner's hotkey
  decoded,      \* outcome of CheckpointSubmission.from_bytes(store data)
  submission,   \* outcome of get_submission
  pc,           \* position of compare_checkpoints
  i,            \* loop index
  failed,
  baseline_average,
  average_time,
  average_similarity,
  reported_average_time,
  base_elapsed, \* perf_counter() - start of the baseline call of this sample
  baselineCalls,\* reference generations that returned so far
  minerCalls,   \* timed generations that returned so far
  callLog,      \* the pipeline calls of the current sample, in order
  raised,       \* which generation call raised: "none", "baseline", "miner"
  sumBase,      \* sum of the baseline's times over the samples so far
  sumTime,      \* sum of gen_time over the samples folded so far
  sumSim,       \* sum of similarity over the samples folded so far
  firstTime,    \* gen_time of sample 0
  allFaster,    \* every sample so far had gen_time below the baseline's time
  allSimOne,    \* every sample so far had similarity 1.0
  withinReported, \* no mean of the gen_times so far reached 1.0625 * reported
  result,       \* the CheckpointBenchmark returned
  AVERAGE_TIME, \* the validator's imported baseline time
  score         \* the number the validator's compare_checkpoints returns

codecVars == <<rec, encoded, store, decoded, submission>>

runVars ==
  <<i, failed, baseline_average, average_time, average_similarity,
    baselineCalls, minerCalls>>

ghostVars ==
  <<sumTime, sumSim, firstTime, allFaster, allSimOne, withinReported>>

validatorVars == <<AVERAGE_TIME, score>>

compareVars ==
  <<pc, runVars, ghostVars, reported_average_time, base_elapsed, result,
    callLog, raised, sumBase, validatorVars>>

vars == <<codecVars, compareVars>>

\* ------------------------------------------------------------ inputs

Rep(c, n) == [k \in 1..n |-> c]

ShortRepositories ==
  {<<>>, <<65>>, <<233, 8364>>, <<128512>>, <<55296>>, BASELINE_CHECKPOINT}

ShortMlpackages == {<<>>, <<66>>, <<8364>>, MLPACKAGES}

\* 0.1f (0x3DCCCCCD), a quiet NaN (0x7FC00000), -FLT_MAX (0xFF7FFFFF)
Float32s ==
  {[sign |-> 0, exp |-> 123, mant |-> 5033165],
   [sign |-> 0, exp |-> 255, mant |-> 4194304],
   [sign |-> 1, exp |-> 254, mant |-> 8388607]}

SpecVersions == {U32(SPEC_VERSION), [hi |-> 258, lo |-> 772]}

Contests == {U32(CURRENT_CONTEST), [hi |-> 32768, lo |-> 1]}

ShortRecords ==
  [repository : ShortRepositories, mlpackages : ShortMlpackages,
   average_time : Float32s, spec_version : SpecVersions, contest : Contests]

\* string lengths around the 128-byte ceiling and the one-byte length prefix
LongStrings ==
  {Rep(97, n) : n \in {MAX_SUBMISSION_BYTES - 16, MAX_SUBMISSION_BYTES - 15,
                       MAX_SUBMISSION_BYTES - 14, MAX_SUBMISSION_BYTES - 13,
                       MAX_BYTE, MAX_BYTE + 1}}
  \cup {Rep(233, 57), Rep(233, 58), Rep(233, 128)}

LongRecords ==
  [repository : LongStrings, mlpackages : {<<>>, <<66>>},
   average_time : {[sign |-> 0, exp |-> 123, mant |-> 5033165]},
   spec_version : {U32(SPEC_VERSION)}, contest : {U32(CURRENT_CONTEST)}]
  \cup
  [repository : {<<65>>}, mlpackages : LongStrings,
   average_time : {[sign |-> 0, exp |-> 123, mant |-> 5033165]},
   spec_version : {U32(SPEC_VERSION)}, contest : {U32(CURRENT_CONTEST)}]

Records == ShortRecords \cup LongRecords

RawBytes == {0, 1, 65, 195}

RawData == UNION {[1..n -> RawBytes] : n \in 0..MaxRawLen}

Pending == [st |-> "pending", exc |-> NoExc, value |-> <<>>]

PendingRecord == [st |-> "pending", exc |-> NoExc, value |-> NoRecord]

NoScore == [returned |-> FALSE, value |-> NaN]

NoResult ==
  [returned |-> FALSE, baseline_average |-> NaN, average_time |-> NaN,
   average_similarity |-> NaN, failed |-> FALSE]

\* ------------------------------------------------------------ codec actions

CodecInit ==
  /\ rec \in Records
  /\ encoded = Pending
  /\ store = [kind |-> "unset", data |-> <<>>]
  /\ decoded = PendingRecord
  /\ submission = [kind |-> "pending", value |-> NoRecord, exc |-> NoExc]

CompareIdle ==
  /\ pc = "idle"
  /\ i = 0
  /\ failed = FALSE
  /\ baseline_average = INITIAL_AVERAGE
  /\ average_time = INITIAL_AVERAGE
  /\ average_similarity = INITIAL_SIMILARITY
  /\ reported_average_time = [given |-> FALSE, v |-> NaN]
  /\ base_elapsed = NaN
  /\ baselineCalls = 0
  /\ minerCalls = 0
  /\ sumTime = Fin(0, 1)
  /\ sumSim = Fin(0, 1)
  /\ firstTime = NaN
  /\ allFaster = TRUE
  /\ allSimOne = TRUE
  /\ withinReported = TRUE
  /\ result = NoResult
  /\ callLog = <<>>
  /\ raised = "none"
  /\ sumBase = Fin(0, 1)
  /\ AVERAGE_TIME = NaN
  /\ score = NoScore

\* the miner encodes its record
ToBytes ==
  /\ encoded.st = "pending"
  /\ LET r == to_bytes(rec)
     IN  encoded' = [st |-> "done", exc |-> r.exc, value |-> r.value]
  /\ UNCHANGED <<rec, store, decoded, submission, compareVars>>

\* the chain holds the whole encoding
CommitEncoded ==
  /\ encoded.st = "done"
  /\ encoded.exc = NoExc
  /\ store.kind = "unset"
  /\ store' = [kind |-> "data", data |-> encoded.value]
  /\ UNCHANGED <<rec, encoded, decoded, submission, compareVars>>

\* the chain holds a strict prefix of the encoding
CommitTruncated ==
  /\ encoded.st = "done"
  /\ encoded.exc = NoExc
  /\ store.kind = "unset"
  /\ \E n \in 0..(Len(encoded.value) - 1) :
       store' = [kind |-> "data", data |-> Slice(encoded.value, 0, n)]
  /\ UNCHANGED <<rec, encoded, decoded, submission, compareVars>>

\* the chain holds the encoding followed by further bytes
CommitExtended ==
  /\ encoded.st = "done"
  /\ encoded.exc = NoExc
  /\ store.kind = "unset"
  /\ \E x \in RawData \ {<<>>} :
       store' = [kind |-> "data", data |-> encoded.value \o x]
  /\ UNCHANGED <<rec, encoded, decoded, submission, compareVars>>

\* the chain holds bytes no encoder produced
CommitRaw ==
  /\ encoded.st = "done"
  /\ store.kind = "unset"
  /\ \E b \in RawData : store' = [kind |-> "data", data |-> b]
  /\ UNCHANGED <<rec, encoded, decoded, submission, compareVars>>

\* the chain holds no metadata for the hotkey
NoMetadata ==
  /\ encoded.st = "done"
  /\ store.kind = "unset"
  /\ store' = [kind |-> "absent", data |-> <<>>]
  /\ UNCHANGED <<rec, encoded, decoded, submission, compareVars>>

\* an observer decodes the stored bytes
FromBytes ==
  /\ store.kind = "data"
  /\ decoded.st = "pending"
  /\ LET r == from_bytes(store.data)
     IN  decoded' = [st |-> "done", exc |-> r.exc, value |-> r.value]
  /\ UNCHANGED <<rec, encoded, store, submission, compareVars>>

\* the validator reads the submission of the hotkey
GetSubmission ==
  /\ store.kind \in {"data", "absent"}
  /\ submission.kind = "pending"
  /\ submission' =
       get_submission([present |-> store.kind = "data", data |-> store.data])
  /\ UNCHANGED <<rec, encoded, store, decoded, compareVars>>

CodecNext ==
  \/ ToBytes
  \/ CommitEncoded
  \/ CommitTruncated
  \/ CommitExtended
  \/ CommitRaw
  \/ NoMetadata
  \/ FromBytes
  \/ GetSubmission

InitCodec == CodecInit /\ CompareIdle

SpecCodec == InitCodec /\ [][CodecNext]_vars

\* ------------------------------------------------------------ comparator actions

ElapsedTimes == {Fin(t, 1) : t \in 1..MaxTime}

Cosines == {Fin(2 * k - CosSteps, CosSteps) : k \in 0..CosSteps}

\* the prompts generate_random_prompt returns
Prompts == {"p1", "p2"}

\* the seeds int.from_bytes(urandom(4), "little") returns
Seeds == {0, 1}

\* reported_average_time: None, 0.0, or a positive time
ReportedTimes ==
  {[given |-> FALSE, v |-> NaN], [given |-> TRUE, v |-> Fin(0, 1)]}
  \cup {[given |-> TRUE, v |-> Fin(t, 2)] : t \in 1..(2 * MaxTime)}

CodecIdle ==
  /\ rec = NoRecord
  /\ encoded = Pending
  /\ store = [kind |-> "unset", data |-> <<>>]
  /\ decoded = PendingRecord
  /\ submission = [kind |-> "pending", value |-> NoRecord, exc |-> NoExc]

\* the state at the first iteration of the loop of compare_checkpoints
CompareInit ==
  /\ pc = "base"
  /\ i = 0
  /\ failed = FALSE
  /\ baseline_average = INITIAL_AVERAGE
  /\ average_time = INITIAL_AVERAGE
  /\ average_similarity = INITIAL_SIMILARITY
  /\ reported_average_time \in ReportedTimes
  /\ base_elapsed = NaN
  /\ baselineCalls = 0
  /\ minerCalls = 0
  /\ sumTime = Fin(0, 1)
  /\ sumSim = Fin(0, 1)
  /\ firstTime = NaN
  /\ allFaster = TRUE
  /\ allSimOne = TRUE
  /\ withinReported = TRUE
  /\ result = NoResult
  /\ callLog = <<>>
  /\ raised = "none"
  /\ sumBase = Fin(0, 1)
  /\ AVERAGE_TIME = NaN
  /\ score = NoScore

\* the prompt and the seed of sample i are drawn, the baseline pipeline
\* generates with base_generator and its time is folded into baseline_average
GenBaseline ==
  /\ pc = "base"
  /\ raised = "none"
  /\ \E elapsed \in ElapsedTimes :
       /\ base_elapsed' = elapsed
       /\ baseline_average' = FoldAverage(baseline_average, i, elapsed)
       /\ sumBase' = FAdd(sumBase, elapsed)
  /\ \E prompt \in Prompts, seed \in Seeds :
       callLog' = <<[pipeline |-> "baseline", output |-> "baseline_output",
                     prompt |-> prompt, seed |-> seed,
                     generator |-> manual_seed(seed)]>>
  /\ baselineCalls' = baselineCalls + 1
  /\ pc' = "cand"
  /\ UNCHANGED <<i, failed, average_time, average_similarity, minerCalls,
                 ghostVars, reported_average_time, result, raised,
                 validatorVars, codecVars>>

\* the miner pipeline generates sample i with checkpoint_generator; gen_time
\* and similarity are folded into average_time and average_similarity
GenCandidate ==
  /\ pc = "cand"
  /\ raised = "none"
  /\ \E gen_time \in ElapsedTimes, cos \in Cosines :
       /\ average_time' = FoldAverage(average_time, i, gen_time)
       /\ average_similarity' =
            FoldAverage(average_similarity, i, similarity(cos))
       /\ sumTime' = FAdd(sumTime, gen_time)
       /\ sumSim' = FAdd(sumSim, similarity(cos))
       /\ firstTime' = IF i = 0 THEN gen_time ELSE firstTime
       /\ allFaster' = (allFaster /\ FLt(gen_time, base_elapsed))
       /\ allSimOne' = (allSimOne /\ similarity(cos) = Fin(1, 1))
       /\ withinReported' =
            (withinReported /\
             ~(/\ reported_average_time.given
               /\ FGe(FDivInt(FAdd(sumTime, gen_time), i + 1),
                      FMul(reported_average_time.v, Fin(17, 16)))))
  /\ callLog' = Append(callLog,
                       [pipeline |-> "miner", output |-> "output",
                        prompt |-> callLog[1].prompt,
                        seed |-> callLog[1].seed,
                        generator |-> manual_seed(callLog[1].seed)])
  /\ minerCalls' = minerCalls + 1
  /\ pc' = "check"
  /\ UNCHANGED <<i, failed, baseline_average, baselineCalls, base_elapsed,
                 reported_average_time, result, raised, sumBase,
                 validatorVars, codecVars>>

\* the baseline pipeline raises in sample i
BaselineRaises ==
  /\ pc = "base"
  /\ raised = "none"
  /\ raised' = "baseline"
  /\ pc' = AfterRaise(i).pc
  /\ i' = AfterRaise(i).i
  /\ UNCHANGED <<failed, baseline_average, average_time, average_similarity,
                 baselineCalls, minerCalls, ghostVars, reported_average_time,
                 base_elapsed, result, callLog, sumBase, validatorVars,
                 codecVars>>

\* the miner pipeline raises in sample i
MinerRaises ==
  /\ pc = "cand"
  /\ raised = "none"
  /\ raised' = "miner"
  /\ pc' = AfterRaise(i).pc
  /\ i' = AfterRaise(i).i
  /\ UNCHANGED <<failed, baseline_average, average_time, average_similarity,
                 baselineCalls, minerCalls, ghostVars, reported_average_time,
                 base_elapsed, result, callLog, sumBase, validatorVars,
                 codecVars>>

\* the early-stop checks that follow the fold of sample i; the prompt, the
\* seed and the generators of the sample are dead from here on
CheckRules ==
  /\ pc = "check"
  /\ LET stop == Fails(reported_average_time, baseline_average, average_time,
                       average_similarity, i)
         to == IF stop THEN AfterBreak(i) ELSE AfterIteration(i)
     IN  /\ failed' = (failed \/ stop)
         /\ pc' = to.pc
         /\ i' = to.i
  /\ callLog' = <<>>
  /\ UNCHANGED <<baseline_average, average_time, average_similarity,
                 baselineCalls, minerCalls, ghostVars, reported_average_time,
                 base_elapsed, result, raised, sumBase, validatorVars,
                 codecVars>>

\* return CheckpointBenchmark(...)
Return ==
  /\ pc = "ret"
  /\ result' = [returned |-> TRUE,
                baseline_average |-> baseline_average,
                average_time |-> average_time,
                average_similarity |-> average_similarity,
                failed |-> failed]
  /\ pc' = "done"
  /\ UNCHANGED <<runVars, ghostVars, reported_average_time, base_elapsed,
                 callLog, raised, sumBase, validatorVars, codecVars>>

CompareNext ==
  \/ GenBaseline
  \/ GenCandidate
  \/ BaselineRaises
  \/ MinerRaises
  \/ CheckRules
  \/ Return

InitCompare == CodecIdle /\ CompareInit

SpecCompare == InitCompare /\ [][CompareNext]_vars

\* ------------------------------------------------------------ validator

\* SAMPLE_COUNT of the validator's compare_checkpoints module
VALIDATOR_SAMPLE_COUNT == 10

\* the values AVERAGE_TIME may have: it is imported from the neuron package,
\* a positive time in seconds
AverageTimes == {Fin(t, 1) : t \in 1..MaxTime}

\* pow(cosine_similarity(...).item(), 4)
validator_similarity(cos) == FMul(FMul(cos, cos), FMul(cos, cos))

\* (AVERAGE_TIME * SAMPLE_COUNT - generated * average_time) / remaining
validator_needed_time(avg, at, generated) ==
  FDivInt(FSub(FMul(avg, Fin(VALIDATOR_SAMPLE_COUNT, 1)),
               FMul(Fin(generated, 1), at)),
          VALIDATOR_SAMPLE_COUNT - generated)

\* whether the checks that follow the fold of sample `generated` end in break
ValidatorBreaks(avg, at, asim, generated) ==
  /\ ~FLt(at, avg)
  /\ \/ FLt(validator_needed_time(avg, at, generated), FDivInt(at, 2))
     \/ FLt(asim, Fin(85, 100))

\* where control goes at the end of an iteration of the validator's loop
ValidatorAfterIteration(idx) ==
  IF idx + 1 < VALIDATOR_SAMPLE_COUNT
    THEN [pc |-> "base", i |-> idx + 1]
    ELSE [pc |-> "ret", i |-> idx]

\* min(0, x): x when x < 0, else the int 0
Min0(x) == IF FLt(x, Fin(0, 1)) THEN x ELSE Fin(0, 1)

\* faulty variant: the difference is not clamped
ScoreUnclamped(avg, at, asim) == FMul(FSub(at, avg), asim)

\* min(0, average_time - AVERAGE_TIME) * average_similarity
Score(avg, at, asim) == FMul(Min0(FSub(at, avg)), asim)

\* the state at the first iteration of the validator's loop
ValidatorInit ==
  /\ pc = "base"
  /\ i = 0
  /\ AVERAGE_TIME \in AverageTimes
  /\ average_time = AVERAGE_TIME
  /\ average_similarity = INITIAL_SIMILARITY
  /\ score = NoScore
  /\ callLog = <<>>
  /\ raised = "none"
  /\ baselineCalls = 0
  /\ minerCalls = 0
  /\ failed = FALSE
  /\ baseline_average = NaN
  /\ reported_average_time = [given |-> FALSE, v |-> NaN]
  /\ base_elapsed = NaN
  /\ result = NoResult
  /\ sumTime = Fin(0, 1)
  /\ sumSim = Fin(0, 1)
  /\ sumBase = Fin(0, 1)
  /\ firstTime = NaN
  /\ allFaster = TRUE
  /\ allSimOne = TRUE
  /\ withinReported = TRUE

\* what the validator's run never writes
validatorUnused ==
  <<failed, baseline_average, minerCalls, ghostVars, sumBase,
    reported_average_time, base_elapsed, result, AVERAGE_TIME, codecVars>>

\* the seed, the prompt and the generator of sample i are made and
\* base_output = baseline(prompt, generator) is computed
ValidatorGenBase ==
  /\ pc = "base"
  /\ raised = "none"
  /\ \E prompt \in Prompts, seed \in Seeds :
       callLog' = <<[pipeline |-> "baseline", output |-> "base_output",
                     prompt |-> prompt, seed |-> seed,
                     generator |-> manual_seed(seed)]>>
  /\ baselineCalls' = baselineCalls + 1
  /\ pc' = "cand"
  /\ UNCHANGED <<i, average_time, average_similarity, raised, score,
                 validatorUnused>>

\* output = baseline(prompt, generator) is computed and timed, with the
\* generator object the first call has drawn from; gen_time and similarity
\* are folded
ValidatorGenTimed ==
  /\ pc = "cand"
  /\ raised = "none"
  /\ \E gen_time \in ElapsedTimes, cos \in Cosines :
       /\ average_time' = FoldAverage(average_time, i, gen_time)
       /\ average_similarity' =
            FoldAverage(average_similarity, i, validator_similarity(cos))
  /\ callLog' = Append(callLog,
                       [pipeline |-> "baseline", output |-> "output",
                        prompt |-> callLog[1].prompt,
                        seed |-> callLog[1].seed,
                        generator |-> Advance(callLog[1].generator)])
  /\ baselineCalls' = baselineCalls + 1
  /\ pc' = "check"
  /\ UNCHANGED <<i, raised, score, validatorUnused>>

\* the first baseline call of sample i raises
ValidatorBaseRaises ==
  /\ pc = "base"
  /\ raised = "none"
  /\ raised' = "baseline"
  /\ pc' = AfterRaise(i).pc
  /\ i' = AfterRaise(i).i
  /\ UNCHANGED <<average_time, average_similarity, baselineCalls, callLog,
                 score, validatorUnused>>

\* the timed baseline call of sample i raises
ValidatorTimedRaises ==
  /\ pc = "cand"
  /\ raised = "none"
  /\ raised' = "baseline"
  /\ pc' = AfterRaise(i).pc
  /\ i' = AfterRaise(i).i
  /\ UNCHANGED <<average_time, average_similarity, baselineCalls, callLog,
                 score, validatorUnused>>

\* the checks that follow the fold of sample i
ValidatorCheck ==
  /\ pc = "check"
  /\ LET to == IF ValidatorBreaks(AVERAGE_TIME, average_time,
                                  average_similarity, i)
                 THEN AfterBreak(i)
                 ELSE ValidatorAfterIteration(i)
     IN  /\ pc' = to.pc
         /\ i' = to.i
  /\ callLog' = <<>>
  /\ UNCHANGED <<average_time, average_similarity, baselineCalls, raised,
                 score, validatorUnused>>

\* return min(0, average_time - AVERAGE_TIME) * average_similarity
ValidatorReturn ==
  /\ pc = "ret"
  /\ score' = [returned |-> TRUE,
               value |-> Score(AVERAGE_TIME, average_time,
                               average_similarity)]
  /\ pc' = "done"
  /\ UNCHANGED <<i, average_time, average_similarity, baselineCalls,
                 callLog, raised, validatorUnused>>

ValidatorNext ==
  \/ ValidatorGenBase
  \/ ValidatorGenTimed
  \/ ValidatorBaseRaises
  \/ ValidatorTimedRaises
  \/ ValidatorCheck
  \/ ValidatorReturn

InitValidator == CodecIdle /\ ValidatorInit

SpecValidator == InitValidator /\ [][ValidatorNext]_vars

\* the places control can be at
ProgramPoints == {"base", "cand", "check", "ret", "done", "raised"}

\* the running call executes the statement it is at: from every place before
\* the return has happened, control moves on
Executes ==
  /\ pc \in {"base", "cand", "check", "ret"}
  /\ pc' \in ProgramPoints
  /\ pc' # pc

\* a run of the validator's compare_checkpoints that is never suspended for
\* ever
FairValidator == SpecValidator /\ WF_pc(Executes)

\* ------------------------------------------------------------ properties

\* the chain holds exactly the bytes to_bytes returned for rec
StoreHoldsEncoding ==
  /\ encoded.st = "done"
  /\ encoded.exc = NoExc
  /\ store.kind = "data"
  /\ store.data = encoded.value

\* the chain holds a strict prefix of the bytes to_bytes returned for rec
StoreHoldsStrictPrefix ==
  /\ encoded.st = "done"
  /\ encoded.exc = NoExc
  /\ store.kind = "data"
  /\ Len(store.data) < Len(encoded.value)
  /\ store.data = Slice(encoded.value, 0, Len(store.data))

\* C1: round trip of the codec. When to_bytes succeeds on a record (so its
\* encoding is at most 128 bytes), from_bytes of those bytes succeeds and
\* returns the record field for field, with the same 32-bit pattern of
\* average_time.
RoundTrip ==
  (StoreHoldsEncoding /\ decoded.st = "done") =>
    /\ decoded.exc = NoExc
    /\ decoded.value = rec
    /\ float_bits(decoded.value.average_time) = float_bits(rec.average_time)

\* C1 witness: a record whose encoding is exactly 128 bytes has been encoded
\* and decoded.
RoundTripWitness ==
  /\ StoreHoldsEncoding
  /\ decoded.st = "done"
  /\ Len(encoded.value) = MAX_SUBMISSION_BYTES

\* C2: truncation rejection. from_bytes of a strict prefix of a valid
\* encoding fails and returns no record.
TruncationRejected ==
  (StoreHoldsStrictPrefix /\ decoded.st = "done") => decoded.exc # NoExc

\* the length to_bytes assembles for a record whose strings encode
AssembledLength(r) ==
  Len(str_encode(r.repository).value) + Len(str_encode(r.mlpackages).value) + 14

\* C3: size enforcement. For a record whose strings encode, to_bytes raises
\* the too-large RuntimeError when the assembled encoding is longer than 128
\* bytes, whatever the string lengths, and otherwise returns at most 128
\* bytes.
SizeEnforced ==
  (/\ encoded.st = "done"
   /\ str_encode(rec.repository).exc = NoExc
   /\ str_encode(rec.mlpackages).exc = NoExc) =>
    IF AssembledLength(rec) > MAX_SUBMISSION_BYTES
    THEN encoded.exc = "RuntimeError"
    ELSE encoded.exc = NoExc /\ Len(encoded.value) <= MAX_SUBMISSION_BYTES

\* C4: running averages. After the fold of every sample, average_time is the
\* arithmetic mean of the gen_times folded so far and average_similarity the
\* mean of the similarities folded so far.
RunningAverages ==
  minerCalls >= 1 =>
    /\ average_time = FDivInt(sumTime, minerCalls)
    /\ average_similarity = FDivInt(sumSim, minerCalls)

\* C5: early-stop rule 1. When a reported time T is given and the first
\* sample's gen_time is above 1.0625 * T, the run returns after sample 0 with
\* failed = True and average_time equal to that gen_time.
EarlyStopRule1 ==
  (/\ result.returned
   /\ reported_average_time.given
   /\ FLt(FMul(reported_average_time.v, Fin(17, 16)), firstTime)) =>
    /\ result.failed
    /\ i = 0
    /\ minerCalls = 1
    /\ result.average_time = firstTime

FullBudget ==
  (result.returned /\ allFaster /\ allSimOne /\ withinReported) =>
    /\ minerCalls = SAMPLE_COUNT
    /\ baselineCalls = SAMPLE_COUNT
    /\ ~result.failed
    /\ result.average_similarity = Fin(1, 1)

\* C7 witness: such a run, with a reported time given, has returned.
FullBudgetWitness ==
  /\ result.returned
  /\ allFaster
  /\ allSimOne
  /\ withinReported
  /\ reported_average_time.given
  /\ minerCalls = SAMPLE_COUNT

\* C8: monotonic failure. Once failed is True it stays True and no pipeline
\* is called, no aggregate is updated and the index does not move any more;
\* the result returned holds the aggregates and the failed flag as they are,
\* hence as they were when failed was set.
MonotonicFailure ==
  /\ [][failed =>
          /\ failed'
          /\ UNCHANGED <<baseline_average, average_time, average_similarity,
                         baselineCalls, minerCalls, i>>]_vars
  /\ [](result.returned =>
          result = [returned |-> TRUE,
                    baseline_average |-> baseline_average,
                    average_time |-> average_time,
                    average_similarity |-> average_similarity,
                    failed |-> failed])

\* C8 witness: a run that failed before the last sample has returned.
MonotonicFailureWitness ==
  /\ result.returned
  /\ result.failed
  /\ minerCalls < SAMPLE_COUNT

\* C9: get_submission never raises. Its outcome is None or a record for
\* absent metadata and for every stored byte string, and it is None whenever
\* from_bytes fails on the stored bytes.
NeverRaises ==
  /\ submission.kind \in {"pending", "none", "record"}
  /\ (/\ submission.kind # "pending"
      /\ decoded.st = "done"
      /\ decoded.exc # NoExc) => submission.kind = "none"
  /\ (submission.kind # "pending" /\ store.kind = "absent") =>
       submission.kind = "none"

\* C9 witness: get_submission returned None for stored bytes that are not
\* UTF-8.
NeverRaisesWitness ==
  /\ submission.kind = "none"
  /\ decoded.st = "done"
  /\ decoded.exc = "UnicodeDecodeError"

\* C10 as stated: every record get_submission returns has the expected
\* spec_version and contest, a repository other than BASELINE_CHECKPOINT and
\* an mlpackages other than MLPACKAGES.
CallerValidationBothDiffer ==
  submission.kind = "record" =>
    /\ submission.value.spec_version = U32(SPEC_VERSION)
    /\ submission.value.contest = U32(CURRENT_CONTEST)
    /\ submission.value.repository # BASELINE_CHECKPOINT
    /\ submission.value.mlpackages # MLPACKAGES

\* C10 amended: every record get_submission returns has the expected
\* spec_version and contest and is not the baseline pair (its repository
\* differs from BASELINE_CHECKPOINT or its mlpackages from MLPACKAGES); a
\* decoded record that has another spec_version or contest, or is the baseline
\* pair, is answered with None, not with an exception.
CallerValidation ==
  /\ submission.kind = "record" =>
       /\ submission.value.spec_version = U32(SPEC_VERSION)
       /\ submission.value.contest = U32(CURRENT_CONTEST)
       /\ ~(/\ submission.value.repository = BASELINE_CHECKPOINT
            /\ submission.value.mlpackages = MLPACKAGES)
  /\ (/\ submission.kind # "pending"
      /\ decoded.st = "done"
      /\ decoded.exc = NoExc
      /\ \/ decoded.value.spec_version # U32(SPEC_VERSION)
         \/ decoded.value.contest # U32(CURRENT_CONTEST)
         \/ /\ decoded.value.repository = BASELINE_CHECKPOINT
            /\ decoded.value.mlpackages = MLPACKAGES) =>
       submission.kind = "none"

\* C10 witness: get_submission returned a record whose repository is the
\* baseline's and whose mlpackages is not.
CallerValidationWitness ==
  /\ submission.kind = "record"
  /\ submission.value.repository = BASELINE_CHECKPOINT
  /\ submission.value.mlpackages # MLPACKAGES

\* the big-endian value of the 4 bytes bs[p+1 .. p+4], in halves
WordAt(bs, p) ==
  [hi |-> bs[p + 1] * 256 + bs[p + 2], lo |-> bs[p + 3] * 256 + bs[p + 4]]

\* C12: wire layout. The bytes to_bytes returns are the UTF-8 length of
\* repository, its UTF-8 bytes, the UTF-8 length of mlpackages, its UTF-8
\* bytes, and three 4-byte big-endian words: the bit pattern of average_time,
\* spec_version and contest; their number is the two UTF-8 lengths plus 14.
\* from_bytes of these bytes finds each field at that place.
WireLayout ==
  (encoded.st = "done" /\ encoded.exc = NoExc) =>
    LET rb == str_encode(rec.repository).value
        mb == str_encode(rec.mlpackages).value
        bs == encoded.value
        r == Len(rb)
        m == Len(mb)
    IN  /\ Len(bs) = r + m + 14
        /\ bs[1] = r
        /\ \A j \in 1..r : bs[1 + j] = rb[j]
        /\ bs[r + 2] = m
        /\ \A j \in 1..m : bs[r + 2 + j] = mb[j]
        /\ WordAt(bs, r + m + 2).hi =
             rec.average_time.sign * 32768 + rec.average_time.exp * 128
             + (rec.average_time.mant \div 65536)
        /\ WordAt(bs, r + m + 2).lo = rec.average_time.mant % 65536
        /\ WordAt(bs, r + m + 6) = rec.spec_version
        /\ WordAt(bs, r + m + 10) = rec.contest
        /\ (StoreHoldsEncoding /\ decoded.st = "done") =>
             /\ decoded.exc = NoExc
             /\ str_encode(decoded.value.repository).value = SubSeq(bs, 2, r + 1)
             /\ str_encode(decoded.value.mlpackages).value =
                  SubSeq(bs, r + 3, r + m + 2)
             /\ float_bits(decoded.value.average_time) = WordAt(bs, r + m + 2)
             /\ decoded.value.spec_version = WordAt(bs, r + m + 6)
             /\ decoded.value.contest = WordAt(bs, r + m + 10)

\* C12 witness: a record with multi-byte characters in both strings and
\* numbers whose four bytes differ has been encoded and decoded.
WireLayoutWitness ==
  /\ StoreHoldsEncoding
  /\ decoded.st = "done"
  /\ rec.repository = <<233, 8364>>
  /\ rec.mlpackages = <<8364>>
  /\ rec.spec_version = [hi |-> 258, lo |-> 772]
  /\ rec.contest = [hi |-> 32768, lo |-> 1]

\* the chain holds the bytes to_bytes returned for rec and at least one more
StoreHoldsExtension ==
  /\ encoded.st = "done"
  /\ encoded.exc = NoExc
  /\ store.kind = "data"
  /\ Len(store.data) > Len(encoded.value)
  /\ SubSeq(store.data, 1, Len(encoded.value)) = encoded.value

\* C16: trailing bytes are ignored. from_bytes of an encoding followed by
\* any further bytes succeeds and returns the encoded record.
TrailingIgnored ==
  (StoreHoldsExtension /\ decoded.st = "done") =>
    /\ decoded.exc = NoExc
    /\ decoded.value = rec

\* C16 witness: an encoding followed by two bytes has been decoded.
TrailingIgnoredWitness ==
  /\ StoreHoldsExtension
  /\ decoded.st = "done"
  /\ Len(store.data) = Len(encoded.value) + 2

\* C11: a generation failure is fatal and not retried. Once a baseline or a
\* miner generation call has raised, compare_checkpoints takes no further
\* step: no call is issued again and no CheckpointBenchmark is returned.
GenerationFailureFatal ==
  /\ [][raised = "none"]_vars
  /\ [](raised # "none" => (~result.returned /\ pc = "raised"))

\* C11 witness: the miner's call raised in the third sample, after two
\* samples were processed, and nothing was returned.
GenerationFailureFatalWitness ==
  /\ raised = "miner"
  /\ baselineCalls = 3
  /\ minerCalls = 2
  /\ ~result.returned

\* the mean of the gen_times of the samples processed so far
MeanTime == FDivInt(sumTime, minerCalls)

\* the mean of the baseline's times of the samples processed so far
MeanBaseline == FDivInt(sumBase, minerCalls)

\* C13: early-stop rule 2. When, after sample i, rule 1 does not apply, the
\* mean gen_time is not better than the baseline's mean, and
\* (baseline mean * N - i * mean) / (N - i) is below half the mean, the run
\* stops at that sample with failed = True.
InfeasibleSpeed ==
  (/\ minerCalls >= 1
   /\ pc \in {"base", "ret", "done"}
   /\ ~Rule1(reported_average_time, MeanTime)
   /\ ~Faster(MeanTime, MeanBaseline)
   /\ Rule2(MeanBaseline, MeanTime, minerCalls - 1)) =>
    /\ failed
    /\ pc \in {"ret", "done"}
    /\ i = minerCalls - 1

\* C17: what a returned result tells. failed = False is returned only after
\* all SAMPLE_COUNT samples were processed; failed = True only when rule 1,
\* rule 2 or rule 3 held on the aggregates of the last processed sample; a
\* run that left the loop early has failed set.
ResultMeaning ==
  result.returned =>
    /\ i = minerCalls - 1
    /\ baselineCalls = minerCalls
    /\ ~result.failed => minerCalls = SAMPLE_COUNT
    /\ result.failed =>
         \/ Rule1(reported_average_time, result.average_time)
         \/ Rule2(result.baseline_average, result.average_time, i)
         \/ Rule3(result.average_similarity)
    /\ minerCalls < SAMPLE_COUNT => result.failed

\* C17 witness: a run returned failed = True after its third sample, the
\* quality floor having been crossed there.
ResultMeaningWitness ==
  /\ result.returned
  /\ result.failed
  /\ minerCalls = 3
  /\ Rule3(result.average_similarity)

\* the calls of the current sample that went to pipeline p
CallsOf(p) == {k \in 1..Len(callLog) : callLog[k].pipeline = p}

\* C14: paired stimuli. When the checks of a sample are reached, the baseline
\* pipeline and the miner pipeline were each called exactly once in that
\* sample, the miner with the prompt of the baseline's call and with a
\* generator in the state the baseline's generator had at its call, and the
\* timed output that was folded is the miner pipeline's.
PairedStimuli ==
  pc = "check" =>
    /\ Cardinality(CallsOf("baseline")) = 1
    /\ Cardinality(CallsOf("miner")) = 1
    /\ \A b \in CallsOf("baseline"), m \in CallsOf("miner") :
         /\ callLog[m].prompt = callLog[b].prompt
         /\ callLog[m].generator = callLog[b].generator
    /\ \A k \in 1..Len(callLog) :
         callLog[k].output = "output" => callLog[k].pipeline = "miner"

\* C15: bounded termination. Every run in which no generation call raises
\* returns, and returns once; it processes between 1 and SAMPLE_COUNT
\* samples, calls the baseline pipeline at most SAMPLE_COUNT times and the
\* miner pipeline at most SAMPLE_COUNT times, and every sample it starts has
\* an index one above the last.
BoundedTermination ==
  /\ <>(score.returned \/ raised # "none")
  /\ [][score.returned => UNCHANGED score]_vars
  /\ [][pc' = "base" => i' = i + 1]_vars
  /\ [](i \in 0..(VALIDATOR_SAMPLE_COUNT - 1))
  /\ [](baselineCalls <= VALIDATOR_SAMPLE_COUNT)
  /\ [](minerCalls <= VALIDATOR_SAMPLE_COUNT)

\* C18: the validator's score. The returned score is never positive when the
\* average similarity is non-negative, and it is 0 when the final
\* average_time is at or above AVERAGE_TIME, after a full run or an early
\* stop.
ScoreNeverPositive ==
  score.returned =>
    /\ FGe(average_similarity, Fin(0, 1)) => ~FLt(Fin(0, 1), score.value)
    /\ FGe(average_time, AVERAGE_TIME) => score.value = Fin(0, 1)

\* C18 witness: a run that stopped before its last sample with an
\* average_time above AVERAGE_TIME and a positive similarity returned 0.
ScoreNeverPositiveWitness ==
  /\ score.returned
  /\ i < VALIDATOR_SAMPLE_COUNT - 1
  /\ FLt(AVERAGE_TIME, average_time)
  /\ FLt(Fin(0, 1), average_similarity)
  /\ score.value = Fin(0, 1)

====
